---- MODULE Spec2Model ----
(***************************************************************************)
(* A model of the mina-indexer witness tree (src/state/witness.rs) and of  *)
(* the server's state lock, event loop and IPC task (src/server.rs), and   *)
(* of the cloud block worker's loop (src/receiver/google_cloud.rs).        *)
(*                                                                         *)
(* Branch (state/branch.rs) is not among the sources: its operations are   *)
(* modelled from the specification's section 4.1 and say so.               *)
(***************************************************************************)
EXTENDS Integers, Sequences, FiniteSets, TLC

VARIABLES
    best_tip,           \* Witness.best_tip: Tip (node id + state hash)
    canonical_tip,      \* Witness.canonical_tip
    root_branch,        \* Witness.root_branch: Branch
    dangling_branches,  \* Witness.dangling_branches: Vec<Branch>
    config,             \* Witness.config: WitnessConfig
    result,             \* what the last add_block call did (ExtensionType or a panic)
    calls,              \* the state hashes passed to add_block so far, in order
    prev,               \* the witness as it was before the last add_block call
    phase,              \* server: the MinaIndexerRunPhase last published
    state_lock,         \* server: the RwLock around Option<IndexerState>
    state_installed,    \* server: the Option in the lock is Some
    loop_pc,            \* server: where the task running initialize and run is
    block_fut,          \* server: what recv_block gave the main loop
    query_receiver,     \* server: the queries queued for the main loop
    save_rx,            \* server: the SaveCommands queued for the main loop
    save_resp_rx,       \* server: the SaveResponses queued for the IPC task
    ipc_pc,             \* server: where the IPC connection task is
    ipc_command,        \* server: the command of the request being served
    ipc_arg,            \* server: the argument of the request being served
    writer,             \* server: what was written to the last accepted connection
    store,              \* server: the blocks the store holds on the best tip's chain
    worker_pc,          \* worker: where worker_loop is
    command_receiver,   \* worker: the commands queued for the worker
    temp_blocks_dir,    \* worker: the temporary directory, and the files in it
    error_sender,       \* worker: the last error published on the watch channel
    children,           \* worker: the gsutil processes spawned so far
    pushed              \* worker: the files whose block was pushed to blocks_sender

witness_vars == <<best_tip, canonical_tip, root_branch, dangling_branches, config,
                  result, calls, prev>>

server_vars == <<phase, state_lock, state_installed, loop_pc, block_fut,
                 query_receiver, save_rx, save_resp_rx, ipc_pc, ipc_command,
                 ipc_arg, writer, store>>

worker_vars == <<worker_pc, command_receiver, temp_blocks_dir, error_sender,
                 children, pushed>>

vars == <<witness_vars, server_vars, worker_vars>>

-----------------------------------------------------------------------------
(* Bounds *)

\* add_block calls in one run
MaxCalls == 4
\* largest transition_frontier_k of a configuration
MaxK == 2
\* largest prune_interval of a configuration
MaxPruneInterval == 2
\* largest number of blocks a best_chain request asks for
MaxNum == 3
\* largest number of blocks the store holds on the best tip's chain
MaxStored == 2
\* largest number of dangling branches of a witness handed to one call
MaxDangling == 3

-----------------------------------------------------------------------------
(* Option<u32> *)

None == <<>>
Some(v) == <<v>>
UnwrapOr(o, d) == IF o = None THEN d ELSE o[1]

\* u32::MAX (witness.rs:52).  TLC's integers are 32-bit signed, so its largest
\* value stands for it; every declared length of the model is far below, and
\* only the order of the values is used.
U32_MAX == 2147483647

Min(S) == CHOOSE x \in S : \A y \in S : x <= y

-----------------------------------------------------------------------------
(* Blocks *)

Block(sh, ph, len) ==
    [state_hash |-> sh, parent_hash |-> ph, blockchain_length |-> len]

\* The root block's length is Branch::new_genesis's choice, which the witness
\* reads with unwrap_or(0): both an absent and a present length are modelled.
RootLengths == {None, Some(1)}

RootBlock(rl) == Block("root", "root", rl)

\* The blocks a run may deliver, for a root of length rl (base = its value):
\*   c1 c2 c3   the valid chain from the root
\*   f2 f3      a competing fork off c1; f3 is as high as c3
\*   o2         a block whose parent is unknown to the witness
\*   low        a child of c1 that declares the root's own length
\*   x1         a child of c1 that declares c1's length (a wrong, low height)
\*   n          a child of c1 with no declared length
\*   root       the root block itself, delivered again
Universe(rl) ==
    LET base == UnwrapOr(rl, 0) IN
    { Block("c1", "root", Some(base + 1)),
      Block("c2", "c1",   Some(base + 2)),
      Block("c3", "c2",   Some(base + 3)),
      Block("f2", "c1",   Some(base + 2)),
      Block("f3", "f2",   Some(base + 3)),
      Block("o2", "zz",   Some(base + 2)),
      Block("low", "c1",  Some(base)),
      Block("x1", "c1",   Some(base + 1)),
      Block("n",  "c1",   None),
      RootBlock(rl) }

Chain == <<"c1", "c2", "c3">>

-----------------------------------------------------------------------------
(* Branch: a tree of nodes; a node id is the node's index in insertion order *)

Node(block, parent) == [block |-> block, parent |-> parent]

NodeIds(branch) == 1..Len(branch.nodes)

BranchNewGenesis(rl) == [nodes |-> <<Node(RootBlock(rl), 0)>>]

BranchNew(block) == [nodes |-> <<Node(block, 0)>>]

BranchRootBlock(branch) == branch.nodes[1].block

NodeLength(branch, id) == UnwrapOr(branch.nodes[id].block.blockchain_length, 0)

\* Branch::extension: attach the block under the node whose state_hash is the
\* block's parent_hash; no such node: None.
BranchExtension(branch, block) ==
    LET at == {i \in NodeIds(branch) :
                  branch.nodes[i].block.state_hash = block.parent_hash}
    IN  IF at = {}
        THEN [node_id |-> None, branch |-> branch]
        ELSE [node_id |-> Some(Len(branch.nodes) + 1),
              branch  |-> [nodes |-> Append(branch.nodes, Node(block, Min(at)))]]

\* Branch::reroot: the block becomes the root, the old root its only child.
BranchReroot(branch, block) ==
    [nodes |-> <<Node(block, 0)>> \o
               [i \in NodeIds(branch) |->
                   Node(branch.nodes[i].block, branch.nodes[i].parent + 1)]]

\* Branch::merge_on: splice the other branch's whole tree in under `target`.
BranchMergeOn(branch, target, other) ==
    LET n == Len(branch.nodes) IN
    [nodes |-> branch.nodes \o
               [i \in NodeIds(other) |->
                   Node(other.nodes[i].block,
                        IF other.nodes[i].parent = 0 THEN target
                        ELSE other.nodes[i].parent + n)]]

Tip(branch, id) == [node_id |-> id, state_hash |-> branch.nodes[id].block.state_hash]

\* Branch::best_tip: the node of greatest height, the earliest inserted of equals.
BranchBestTip(branch) ==
    LET top == Min({i \in NodeIds(branch) :
                      \A j \in NodeIds(branch) :
                          /\ NodeLength(branch, j) <= NodeLength(branch, i)
                          /\ (NodeLength(branch, j) = NodeLength(branch, i) => i <= j)})
    IN  Tip(branch, top)

RECURSIVE AncestorAt(_, _, _)
\* the node reached from `id` by `n` parent edges; 0 when the branch is not that deep
AncestorAt(branch, id, n) ==
    IF id = 0 THEN 0
    ELSE IF n = 0 THEN id
    ELSE AncestorAt(branch, branch.nodes[id].parent, n - 1)

\* Branch::canonical_tip: `threshold` parent edges up from the best tip, or None.
BranchCanonicalTip(branch, threshold) ==
    LET a == AncestorAt(branch, BranchBestTip(branch).node_id, threshold)
    IN  IF a = 0 THEN None ELSE Some(Tip(branch, a))

-----------------------------------------------------------------------------
(* Witness *)

WitnessConfigs ==
    {c \in [transition_frontier_k : 1..MaxK,
            canonical_update_threshold : 0..(MaxK - 1),
            prune_interval : 1..MaxPruneInterval] :
        c.canonical_update_threshold < c.transition_frontier_k}

\* a Witness::new without the fallback of line 33: with a root branch
\* shallower than the threshold its canonical tip points at no node
WitnessNewNoFallback(rl, cfg) ==
    LET rb == BranchNewGenesis(rl)
        bt == BranchBestTip(rb)
        ct == BranchCanonicalTip(rb, cfg.canonical_update_threshold)
    IN  [best_tip |-> bt,
         canonical_tip |-> IF ct # None THEN ct[1]
                           ELSE [node_id |-> 0, state_hash |-> "none"],
         root_branch |-> rb,
         dangling_branches |-> <<>>,
         config |-> cfg]

\* Witness::new
WitnessNew(rl, cfg) ==
    LET rb == BranchNewGenesis(rl)
        bt == BranchBestTip(rb)
        ct == BranchCanonicalTip(rb, cfg.canonical_update_threshold)
    IN  [best_tip |-> bt,
         canonical_tip |-> IF ct # None THEN ct[1] ELSE bt,
         root_branch |-> rb,
         dangling_branches |-> <<>>,
         config |-> cfg]

RemoveAt(seq, i) == SubSeq(seq, 1, i - 1) \o SubSeq(seq, i + 1, Len(seq))

RECURSIVE MergeLoop(_, _, _, _, _)
\* try_merge_dangling's first loop, from dangling branch `index` on: every
\* branch whose root block has the new node's state hash is merged on the new
\* node and its index recorded.
MergeLoop(root, dangling, index, new_node_id, to_remove_idxs) ==
    IF index > Len(dangling)
    THEN [root_branch |-> root, to_remove_idxs |-> to_remove_idxs]
    ELSE LET new_state_hash == root.nodes[new_node_id].block.state_hash
             branch == dangling[index]
         IN  IF new_state_hash = BranchRootBlock(branch).state_hash
             THEN MergeLoop(BranchMergeOn(root, new_node_id, branch), dangling,
                            index + 1, new_node_id, Append(to_remove_idxs, index))
             ELSE MergeLoop(root, dangling, index + 1, new_node_id, to_remove_idxs)

\* a removal index that forgets the entries already removed
RemovalIndexUnadjusted(idx_to_remove, num_removed) == idx_to_remove

\* the index try_merge_dangling removes for the entry it reaches after
\* num_removed removals
RemovalIndex(idx_to_remove, num_removed) == idx_to_remove - num_removed

RECURSIVE RemoveLoop(_, _, _)
\* try_merge_dangling's second loop, from entry `k` of to_remove_idxs on
RemoveLoop(dangling, to_remove_idxs, k) ==
    IF k > Len(to_remove_idxs) THEN dangling
    ELSE RemoveLoop(RemoveAt(dangling, RemovalIndex(to_remove_idxs[k], k - 1)),
                    to_remove_idxs, k + 1)

\* Witness::try_merge_dangling
TryMergeDangling(self, new_node_id) ==
    LET m == MergeLoop(self.root_branch, self.dangling_branches, 1, new_node_id, <<>>)
    IN  IF m.to_remove_idxs # <<>>
        THEN [merged |-> TRUE,
              self |-> [self EXCEPT
                          !.root_branch = m.root_branch,
                          !.best_tip = BranchBestTip(m.root_branch),
                          !.dangling_branches =
                              RemoveLoop(self.dangling_branches, m.to_remove_idxs, 1)]]
        ELSE [merged |-> FALSE, self |-> self]

\* ExtensionType, and the two ways add_block ends without returning
ExtensionTypes ==
    {"BlockNotAdded", "RootSimple", "RootComplex",
     "DanglingNew", "DanglingExtended", "DanglingMerged"}
Panics == {"PanicLongRangeFork", "PanicNotImplemented"}

\* add_block, lines 74-111: the block is above the root branch's best tip.
\* Every path ends in todo!() or panic!(): with no dangling branch the loop
\* body never runs and line 105 is reached; otherwise the first iteration
\* reroots or extends the first dangling branch and then stops at a todo!()
\* (u32 subtraction at line 86 wraps, as in a release build).
DanglingAttempt(self, block, new_block_length) ==
    IF self.dangling_branches = <<>>
    THEN [self |-> self, result |-> "PanicNotImplemented"]
    ELSE LET branch == self.dangling_branches[1]
             dangling_root_length ==
                 UnwrapOr(BranchRootBlock(branch).blockchain_length, 0)
             dangling_tip_length ==
                 NodeLength(branch, BranchBestTip(branch).node_id)
             below_root == IF dangling_root_length = 0 THEN U32_MAX
                           ELSE dangling_root_length - 1
             ext == BranchExtension(branch, block)
         IN  IF new_block_length = below_root
             THEN [self |-> [self EXCEPT !.dangling_branches[1] =
                                             BranchReroot(branch, block)],
                   result |-> "PanicNotImplemented"]
             ELSE IF /\ dangling_root_length < new_block_length
                     /\ dangling_tip_length + 1 >= new_block_length
             THEN IF ext.node_id # None
                  THEN [self |-> [self EXCEPT !.dangling_branches[1] = ext.branch],
                        result |-> "PanicNotImplemented"]
                  ELSE [self |-> self, result |-> "PanicLongRangeFork"]
             ELSE [self |-> self, result |-> "PanicNotImplemented"]

\* RootAttempt with line 63 left out: best_tip is not refreshed
RootAttemptStaleBestTip(self, block) ==
    LET ext == BranchExtension(self.root_branch, block) IN
    IF ext.node_id # None
    THEN LET extended == [self EXCEPT !.root_branch = ext.branch]
             m == TryMergeDangling(extended, ext.node_id[1])
         IN  [self |-> m.self,
              result |-> IF m.merged THEN "RootComplex" ELSE "RootSimple"]
    ELSE [self |-> self, result |-> "PanicLongRangeFork"]

\* RootAttempt that also moves canonical_tip, to the node just attached
RootAttemptCanonicalNewNode(self, block) ==
    LET ext == BranchExtension(self.root_branch, block) IN
    IF ext.node_id # None
    THEN LET extended == [self EXCEPT !.root_branch = ext.branch,
                                      !.best_tip = BranchBestTip(ext.branch),
                                      !.canonical_tip = Tip(ext.branch, ext.node_id[1])]
             m == TryMergeDangling(extended, ext.node_id[1])
         IN  [self |-> m.self,
              result |-> IF m.merged THEN "RootComplex" ELSE "RootSimple"]
    ELSE [self |-> self, result |-> "PanicLongRangeFork"]

\* RootAttempt that answers by the dangling list instead of by the merge
RootAttemptComplexIfDangling(self, block) ==
    LET ext == BranchExtension(self.root_branch, block) IN
    IF ext.node_id # None
    THEN LET extended == [self EXCEPT !.root_branch = ext.branch,
                                      !.best_tip = BranchBestTip(ext.branch)]
             m == TryMergeDangling(extended, ext.node_id[1])
         IN  [self |-> m.self,
              result |-> IF self.dangling_branches # <<>>
                         THEN "RootComplex" ELSE "RootSimple"]
    ELSE [self |-> self, result |-> "PanicLongRangeFork"]

\* add_block, lines 60-72: the block is within the root branch's heights.
RootAttempt(self, block) ==
    LET ext == BranchExtension(self.root_branch, block) IN
    IF ext.node_id # None
    THEN LET extended == [self EXCEPT !.root_branch = ext.branch,
                                      !.best_tip = BranchBestTip(ext.branch)]
             m == TryMergeDangling(extended, ext.node_id[1])
         IN  [self |-> m.self,
              result |-> IF m.merged THEN "RootComplex" ELSE "RootSimple"]
    ELSE [self |-> self, result |-> "PanicLongRangeFork"]

\* add_block, line 55: the new block is not above the root
BelowRootOffByOne(root_block_length, new_block_length) ==
    root_block_length > new_block_length

BelowRoot(root_block_length, new_block_length) ==
    root_block_length >= new_block_length

\* Witness::add_block
WitnessAddBlock(self, block) ==
    LET root_block_length ==
            UnwrapOr(BranchRootBlock(self.root_branch).blockchain_length, 0)
        best_tip_length == NodeLength(self.root_branch, self.best_tip.node_id)
        new_block_length == UnwrapOr(block.blockchain_length, U32_MAX)
    IN  IF BelowRoot(root_block_length, new_block_length)
        THEN [self |-> self, result |-> "BlockNotAdded"]
        ELSE IF new_block_length <= best_tip_length + 1
        THEN RootAttempt(self, block)
        ELSE DanglingAttempt(self, block, new_block_length)

-----------------------------------------------------------------------------
(* The witness as a state machine: one add_block call per step *)

Self == [best_tip |-> best_tip, canonical_tip |-> canonical_tip,
         root_branch |-> root_branch, dangling_branches |-> dangling_branches,
         config |-> config]

\* a panic unwinds out of add_block: the witness takes no further call
Panicked == result \in Panics

InitWitness ==
    \E rl \in RootLengths, cfg \in WitnessConfigs :
        LET w == WitnessNew(rl, cfg) IN
        /\ best_tip = w.best_tip
        /\ canonical_tip = w.canonical_tip
        /\ root_branch = w.root_branch
        /\ dangling_branches = w.dangling_branches
        /\ config = w.config
        /\ result = "NoCall"
        /\ calls = <<>>
        /\ prev = w

add_block ==
    /\ UNCHANGED <<server_vars, worker_vars>>
    /\ ~Panicked
    /\ Len(calls) < MaxCalls
    /\ \E block \in Universe(BranchRootBlock(root_branch).blockchain_length) :
          LET r == WitnessAddBlock(Self, block) IN
          /\ best_tip' = r.self.best_tip
          /\ canonical_tip' = r.self.canonical_tip
          /\ root_branch' = r.self.root_branch
          /\ dangling_branches' = r.self.dangling_branches
          /\ config' = r.self.config
          /\ result' = r.result
          /\ calls' = Append(calls, block.state_hash)
          /\ prev' = Self

-----------------------------------------------------------------------------
(* The server: the task that runs initialize and then run's event loop, and  *)
(* the task that accepts IPC connections, around one RwLock.                 *)

\* capacity of the query and SaveCommand channels (server.rs:94, 95)
QueryChannelCapacity == 1
SaveChannelCapacity == 1

Queries == {"NumBlocksProcessed", "BestTip", "CanonicalTip", "Uptime"}

\* the first token of an IPC request; "other" is any unrecognised one
Commands == {"account", "best_chain", "best_ledger", "summary", "save_state", "other"}

\* the address of an account request: one the best ledger holds, one it lacks
Addresses == {"in_ledger", "absent"}

\* a request's argument: the address of account, the number of best_chain
NoArg == [address |-> "none", num |-> 0]

RequestArgs(command) ==
    CASE command = "account" -> {[NoArg EXCEPT !.address = a] : a \in Addresses}
      [] command = "best_chain" -> {[NoArg EXCEPT !.num = n] : n \in 0..MaxNum}
      [] OTHER -> {NoArg}

\* one write_all on the connection: a text, or the blocks of a best chain
Reply(text) == [text |-> text, blocks |-> <<>>]

StillInitializing == Reply("Mina Indexer state still initializing, please wait")

\* an outcome of serving a request: what is written, or a panic of the task
Written(replies) == [panic |-> FALSE, written |-> replies]
TaskPanic == [panic |-> TRUE, written |-> <<>>]

\* lines 208-218: the loop `for _ in 1..num`; the stored block of height h has
\* the one of height h - 1 as its parent, and unwrapping a block the store
\* lacks panics
RECURSIVE BestChainLoop(_, _, _)
BestChainLoop(best_chain, parent, iterations) ==
    IF iterations <= 0 THEN Written(<<[text |-> "Some", blocks |-> best_chain]>>)
    ELSE IF parent < 1 THEN TaskPanic
    ELSE BestChainLoop(Append(best_chain, parent), parent - 1, iterations - 1)

\* lines 203-220: the best tip's block, then num - 1 parents
BestChain(num, stored) == BestChainLoop(<<stored>>, stored - 1, num - 1)

\* lines 175-181: the account is written when the ledger holds the address
AccountReply(address) ==
    IF address = "in_ledger" THEN Written(<<Reply("account")>>) ELSE Written(<<>>)

\* lines 158-323, what a request other than a save on an installed state ends
\* with: the outcomes of the match arm of its command
IpcOutcomes(command, arg, installed, stored) ==
    IF ~installed
    THEN IF command = "best_chain"
         THEN {Written(<<Reply("None")>>)}
         ELSE {Written(<<StillInitializing>>)}
    ELSE CASE command = "account" -> {AccountReply(arg.address)}
           [] command = "best_chain" -> {BestChain(arg.num, stored)}
           [] command = "best_ledger" ->
                {Written(<<Reply("Ledger written to")>>),
                 Written(<<Reply("The path provided must be a file")>>)}
           [] command = "summary" -> {Written(<<Reply("summary")>>)}
           [] OTHER -> {Written(<<>>)}

\* MinaIndexer::initialized, lines 353-359: the phase last published is none
\* of JustStarted, SettingSIGINTHandler, InitializingState
initialized ==
    phase \notin {"JustStarted", "SettingSIGINTHandler", "InitializingState"}

\* the task running initialize and run has ended, dropping its channel ends
LoopEnded == loop_pc \in {"returned_err", "panicked"}

\* the IPC task has panicked, dropping its channel ends and its guard
IpcEnded == ipc_pc = "panicked"

\* RwLock::try_read succeeds unless a write guard is held
CanRead(lock) == ~lock.writer

\* a try_write that does not look at the read guards
CanWriteIgnoringReaders(lock) == ~lock.writer

\* RwLock::try_write succeeds when no guard at all is held
CanWrite(lock) == ~lock.writer /\ lock.readers = 0

ReadGuard(lock) == [lock EXCEPT !.readers = @ + 1]
DropReadGuard(lock) == [lock EXCEPT !.readers = @ - 1]
WriteGuard(lock) == [lock EXCEPT !.writer = TRUE]
DropWriteGuard(lock) == [lock EXCEPT !.writer = FALSE]

InitServer ==
    /\ phase = "JustStarted"
    /\ state_lock = [writer |-> FALSE, readers |-> 0]
    /\ state_installed = FALSE
    /\ loop_pc = "start"
    /\ block_fut = "none"
    /\ query_receiver = <<>>
    /\ save_rx = <<>>
    /\ save_resp_rx = <<>>
    /\ ipc_pc = "accept"
    /\ ipc_command = "none"
    /\ ipc_arg = NoArg
    /\ writer = <<>>
    /\ store \in 1..MaxStored

loop_unchanged ==
    UNCHANGED <<witness_vars, worker_vars, ipc_pc, ipc_command, ipc_arg, writer, store>>
ipc_unchanged ==
    UNCHANGED <<witness_vars, worker_vars, phase, loop_pc, block_fut, query_receiver,
                store>>

(* initialize *)

\* line 384
initialize_connecting ==
    /\ loop_pc = "start"
    /\ phase' = "ConnectingToIPCSocket"
    /\ loop_pc' = "connecting"
    /\ UNCHANGED <<state_lock, state_installed, block_fut, query_receiver, save_rx, save_resp_rx>>
    /\ loop_unchanged

\* lines 386-392
initialize_sigint ==
    /\ loop_pc = "connecting"
    /\ phase' = "SettingSIGINTHandler"
    /\ loop_pc' = "sigint"
    /\ UNCHANGED <<state_lock, state_installed, block_fut, query_receiver, save_rx, save_resp_rx>>
    /\ loop_unchanged

\* line 394
initialize_state ==
    /\ loop_pc = "sigint"
    /\ phase' = "InitializingState"
    /\ loop_pc' = "initializing"
    /\ UNCHANGED <<state_lock, state_installed, block_fut, query_receiver, save_rx, save_resp_rx>>
    /\ loop_unchanged

\* lines 408-446: the state is built from the parser or from a snapshot; any
\* of the `?` makes the task return with the error instead
initialize_built ==
    /\ loop_pc = "initializing"
    /\ \/ /\ \E p \in {"StateInitializedFromParser", "StateInitializedFromSnapshot"} :
                phase' = p
          /\ loop_pc' = "install_wait"
       \/ /\ loop_pc' = "returned_err"
          /\ UNCHANGED phase
    /\ UNCHANGED <<state_lock, state_installed, block_fut, query_receiver, save_rx, save_resp_rx>>
    /\ loop_unchanged

\* lines 447-451
initialize_try_write ==
    /\ loop_pc = "install_wait"
    /\ CanWrite(state_lock)
    /\ state_lock' = WriteGuard(state_lock)
    /\ loop_pc' = "installing"
    /\ UNCHANGED <<phase, state_installed, block_fut, query_receiver, save_rx, save_resp_rx>>
    /\ loop_unchanged

\* lines 452-453: the state is installed and the guard dropped on return
initialize_replace ==
    /\ loop_pc = "installing"
    /\ state_installed' = TRUE
    /\ state_lock' = DropWriteGuard(state_lock)
    /\ loop_pc' = "run"
    /\ UNCHANGED <<phase, block_fut, query_receiver, save_rx, save_resp_rx>>
    /\ loop_unchanged

(* run *)

\* lines 470-472
run_start_receiver ==
    /\ loop_pc = "run"
    /\ phase' = "StartingBlockReceiver"
    /\ \/ loop_pc' = "receiver_started"
       \/ loop_pc' = "returned_err"
    /\ UNCHANGED <<state_lock, state_installed, block_fut, query_receiver, save_rx, save_resp_rx>>
    /\ loop_unchanged

\* line 475
run_start_loop ==
    /\ loop_pc = "receiver_started"
    /\ phase' = "StartingMainServerLoop"
    /\ loop_pc' = "select"
    /\ UNCHANGED <<state_lock, state_installed, block_fut, query_receiver, save_rx, save_resp_rx>>
    /\ loop_unchanged

\* a user of MinaIndexer::send_query (lines 341-351)
send_query ==
    /\ loop_pc # "exited"
    /\ Len(query_receiver) < QueryChannelCapacity
    /\ \E q \in Queries : query_receiver' = Append(query_receiver, q)
    /\ UNCHANGED <<phase, state_lock, state_installed, loop_pc, block_fut, save_rx, save_resp_rx>>
    /\ loop_unchanged

\* select!, line 478: a query is received
run_query_recv ==
    /\ loop_pc = "select"
    /\ query_receiver # <<>>
    /\ loop_pc' = "query_try_read"
    /\ UNCHANGED <<phase, state_lock, state_installed, block_fut, query_receiver, save_rx, save_resp_rx>>
    /\ loop_unchanged

\* lines 479-483
run_query_try_read ==
    /\ loop_pc = "query_try_read"
    /\ CanRead(state_lock)
    /\ state_lock' = ReadGuard(state_lock)
    /\ loop_pc' = "query_read"
    /\ UNCHANGED <<phase, state_installed, block_fut, query_receiver, save_rx, save_resp_rx>>
    /\ loop_unchanged

\* lines 484-502: the response is sent and the read guard dropped
run_query_respond ==
    /\ loop_pc = "query_read"
    /\ query_receiver' = Tail(query_receiver)
    /\ state_lock' = DropReadGuard(state_lock)
    /\ loop_pc' = "select"
    /\ UNCHANGED <<phase, state_installed, block_fut, save_rx, save_resp_rx>>
    /\ loop_unchanged

\* select!, line 504: recv_block gives a block, the receiver's end, or an error
run_block_recv ==
    /\ loop_pc = "select"
    /\ \E b \in {"block", "shutdown", "error"} : block_fut' = b
    /\ loop_pc' = "block_try_write"
    /\ UNCHANGED <<phase, state_lock, state_installed, query_receiver, save_rx, save_resp_rx>>
    /\ loop_unchanged

\* select!, line 526: a SaveCommand is received, or None once the sender of
\* the channel is gone
run_save_recv ==
    /\ loop_pc = "select"
    /\ save_rx # <<>> \/ IpcEnded
    /\ loop_pc' = "save_try_write"
    /\ UNCHANGED <<phase, state_lock, state_installed, block_fut, query_receiver, save_rx, save_resp_rx>>
    /\ loop_unchanged

\* lines 505-509 and 527-531: the arm spins on try_write until it succeeds
run_try_write ==
    /\ loop_pc \in {"block_try_write", "save_try_write"}
    /\ CanWrite(state_lock)
    /\ state_lock' = WriteGuard(state_lock)
    /\ loop_pc' = IF loop_pc = "block_try_write" THEN "block_write" ELSE "save_write"
    /\ UNCHANGED <<phase, state_installed, block_fut, query_receiver, save_rx, save_resp_rx>>
    /\ loop_unchanged

\* a block arm whose `?` leaves run: an error of recv_block ends the loop
BlockArmPropagating ==
    /\ phase' = "ReceivingBlock"
    /\ block_fut' = "none"
    /\ \/ block_fut # "error" /\ loop_pc' = "select" /\ UNCHANGED store
       \/ block_fut = "error" /\ loop_pc' = "returned_err" /\ UNCHANGED store
       \/ /\ block_fut = "block"
          /\ store < MaxStored
          /\ store' = store + 1
          /\ loop_pc' = "select"
       \/ block_fut = "block" /\ loop_pc' = "panicked" /\ UNCHANGED store
    /\ UNCHANGED <<save_rx, save_resp_rx>>

\* lines 510-524: the closure's result is dropped, so an Err of recv_block or
\* of add_block ends only the closure; a panic inside add_block unwinds the
\* task, dropping the guard
BlockArm ==
    /\ phase' = "ReceivingBlock"
    /\ block_fut' = "none"
    /\ \/ loop_pc' = "select" /\ UNCHANGED store
       \/ /\ block_fut = "block"
          /\ store < MaxStored
          /\ store' = store + 1
          /\ loop_pc' = "select"
       \/ block_fut = "block" /\ loop_pc' = "panicked" /\ UNCHANGED store
    /\ UNCHANGED <<save_rx, save_resp_rx>>

\* lines 532-543: save_snapshot succeeds or fails, and its outcome is sent
SaveArm ==
    /\ IF save_rx # <<>>
       THEN /\ phase' = "SavingStateSnapshot"
            /\ \E r \in {"snapshot created", "error"} :
                  save_resp_rx' = Append(save_resp_rx, r)
            /\ save_rx' = Tail(save_rx)
       ELSE UNCHANGED <<phase, save_rx, save_resp_rx>>
    /\ loop_pc' = "select"
    /\ UNCHANGED <<block_fut, store>>

\* the body of the arm runs under the write guard, which is dropped after it
run_write_arm ==
    /\ loop_pc \in {"block_write", "save_write"}
    /\ IF loop_pc = "block_write" THEN BlockArm ELSE SaveArm
    /\ state_lock' = DropWriteGuard(state_lock)
    /\ UNCHANGED <<state_installed, query_receiver>>
    /\ UNCHANGED <<witness_vars, worker_vars, ipc_pc, ipc_command, ipc_arg, writer>>

(* the IPC connection task, lines 137-331 *)

\* process::exit: every task of the process stops where it is and the lock
\* goes with the process; what a client has been sent stays sent
ProcessExit ==
    /\ loop_pc' = "exited"
    /\ ipc_pc' = "exited"
    /\ state_lock' = [writer |-> FALSE, readers |-> 0]
    /\ UNCHANGED <<phase, state_installed, block_fut, query_receiver, save_rx,
                   save_resp_rx, ipc_command, ipc_arg, writer, store>>
    /\ UNCHANGED <<witness_vars, worker_vars>>

\* lines 388-392: once the Ctrl-C handler is set, SIGINT runs process::exit(0)
sigint ==
    /\ loop_pc \notin {"start", "connecting", "sigint", "exited"}
    /\ ProcessExit

\* lines 139-141: accept fails and the task ends the process
ipc_accept_err ==
    /\ ipc_pc = "accept"
    /\ ProcessExit

\* line 138: a connection is accepted; its request is fixed here
ipc_accept ==
    /\ ipc_pc = "accept"
    /\ \E c \in Commands : \E a \in RequestArgs(c) :
          /\ ipc_command' = c
          /\ ipc_arg' = a
    /\ writer' = <<>>
    /\ ipc_pc' = "try_read"
    /\ UNCHANGED <<state_lock, state_installed, save_rx, save_resp_rx>>
    /\ ipc_unchanged

\* lines 143-147
ipc_try_read ==
    /\ ipc_pc = "try_read"
    /\ CanRead(state_lock)
    /\ state_lock' = ReadGuard(state_lock)
    /\ ipc_pc' = "serve"
    /\ UNCHANGED <<state_installed, ipc_command, ipc_arg, writer, save_rx, save_resp_rx>>
    /\ ipc_unchanged

\* the request waits for a SaveResponse before its last reply
AwaitsSaveResponse == ipc_command = "save_state" /\ state_installed

\* the task leaves the request: its read guard goes out of scope
EndRequest(pc) ==
    /\ state_lock' = DropReadGuard(state_lock)
    /\ ipc_pc' = pc
    /\ ipc_command' = "none"
    /\ ipc_arg' = NoArg

\* lines 148-312: the request is read and dispatched; save_state on an
\* installed state sends the SaveCommand and writes its first reply (lines
\* 310-312), panicking when the receiver of the channel is gone; an
\* unrecognised command ends the iteration at once (`continue`, line 326)
ipc_serve ==
    /\ ipc_pc = "serve"
    /\ IF ipc_command = "other"
       THEN /\ EndRequest("accept")
            /\ UNCHANGED <<save_rx, writer>>
       ELSE IF AwaitsSaveResponse
       THEN IF LoopEnded
            THEN /\ EndRequest("panicked")
                 /\ UNCHANGED <<save_rx, writer>>
            ELSE /\ Len(save_rx) < SaveChannelCapacity
                 /\ save_rx' = Append(save_rx, "path")
                 /\ writer' = Append(writer, Reply("saving snapshot..."))
                 /\ ipc_pc' = "reply"
                 /\ UNCHANGED <<state_lock, ipc_command, ipc_arg>>
       ELSE /\ ipc_pc' = "reply"
            /\ UNCHANGED <<state_lock, ipc_command, ipc_arg, save_rx, writer>>
    /\ UNCHANGED <<state_installed, save_resp_rx>>
    /\ ipc_unchanged

\* lines 168-323: the reply is written (for save_state, the SaveResponse once
\* it is received, lines 313-321; the blocking recv fails when the sender is
\* gone) and the read guard goes out of scope at the end of the iteration, or
\* as the panic unwinds
ipc_reply ==
    /\ ipc_pc = "reply"
    /\ IF AwaitsSaveResponse
       THEN IF save_resp_rx # <<>>
            THEN /\ save_resp_rx' = Tail(save_resp_rx)
                 /\ writer' = Append(writer, Reply(Head(save_resp_rx)))
                 /\ EndRequest("accept")
            ELSE /\ LoopEnded
                 /\ EndRequest("panicked")
                 /\ UNCHANGED <<save_resp_rx, writer>>
       ELSE /\ \E o \in IpcOutcomes(ipc_command, ipc_arg, state_installed, store) :
                  /\ writer' = writer \o o.written
                  /\ EndRequest(IF o.panic THEN "panicked" ELSE "accept")
            /\ UNCHANGED save_resp_rx
    /\ UNCHANGED <<state_installed, save_rx>>
    /\ ipc_unchanged

-----------------------------------------------------------------------------
(* The cloud block worker: GoogleCloudBlockWorker::worker_loop and the        *)
(* processes around it.                                                       *)

\* the files the temporary directory can hold: block files that parse, a block
\* file that does not, and a file is_valid_block_file refuses
BlockFiles == {"mainnet-2-a.json", "mainnet-3-b.json", "mainnet-3-bad.json", "notes.txt"}

\* lines 65-71: new demands that the directory exists; what it holds is free
InitWorker ==
    /\ worker_pc = "top"
    /\ command_receiver = <<>>
    /\ temp_blocks_dir \in {[exists |-> TRUE, files |-> fs] : fs \in SUBSET BlockFiles}
    /\ error_sender = "none"
    /\ children = 0
    /\ pushed = {}

worker_unchanged == UNCHANGED <<witness_vars, server_vars>>

\* the holder of the command channel's sender asks the running worker to stop
send_shutdown ==
    /\ worker_pc \in {"top", "spawn"}
    /\ command_receiver = <<>>
    /\ command_receiver' = <<"Shutdown">>
    /\ UNCHANGED <<worker_pc, temp_blocks_dir, error_sender, children, pushed>>
    /\ worker_unchanged

\* lines 76-88: the top of an iteration.  A queued Shutdown is taken: the
\* directory, when its metadata can be read, is removed with all its files
\* (a failure of remove_dir_all panics in expect), and the loop returns.
\* Without a command the iteration goes on to spawn gsutil.
worker_try_recv ==
    /\ worker_pc = "top"
    /\ IF command_receiver # <<>>
       THEN /\ command_receiver' = Tail(command_receiver)
            /\ IF temp_blocks_dir.exists
               THEN \/ /\ temp_blocks_dir' = [exists |-> FALSE, files |-> {}]
                       /\ worker_pc' = "returned"
                    \/ /\ worker_pc' = "panicked_expect"
                       /\ UNCHANGED temp_blocks_dir
               ELSE /\ worker_pc' = "returned"
                    /\ UNCHANGED temp_blocks_dir
       ELSE /\ worker_pc' = "spawn"
            /\ UNCHANGED <<command_receiver, temp_blocks_dir>>
    /\ UNCHANGED <<error_sender, children, pushed>>
    /\ worker_unchanged

\* lines 90-103: gsutil is spawned with its stdin left inherited (no
\* .stdin(Stdio::piped()), unlike bin/mina-blocks.rs:48).  A spawn error is
\* published and the loop continues at its top; after a successful spawn
\* child.stdin is None and child.stdin.take().unwrap() panics, so the rest of
\* the iteration (lines 105-153: the urls, read_dir, parse_file, push,
\* remove_file, sleep) is never run.
worker_spawn ==
    /\ worker_pc = "spawn"
    /\ \/ /\ error_sender' = "IOError"
          /\ worker_pc' = "top"
          /\ UNCHANGED children
       \/ /\ children' = children + 1
          /\ worker_pc' = "panicked_unwrap"
          /\ UNCHANGED error_sender
    /\ UNCHANGED <<command_receiver, temp_blocks_dir, pushed>>
    /\ worker_unchanged

\* a spawned gsutil (cp -n: no overwrite) copies a file into the directory; it
\* outlives the task that spawned it
gsutil_cp ==
    /\ children > 0
    /\ temp_blocks_dir.exists
    /\ \E f \in BlockFiles \ temp_blocks_dir.files :
          temp_blocks_dir' = [temp_blocks_dir EXCEPT !.files = @ \cup {f}]
    /\ UNCHANGED <<worker_pc, command_receiver, error_sender, children, pushed>>
    /\ worker_unchanged

-----------------------------------------------------------------------------
(* Specifications *)

\* no request and no file matters to the witness: one store, an empty directory
QuietSurroundings == store = 1 /\ temp_blocks_dir.files = {}

Init == InitWitness /\ InitServer /\ InitWorker /\ QuietSurroundings

Next == add_block

\* the witness under add_block calls
Spec == Init /\ [][Next]_vars

\* the server starts with a witness of one fixed configuration
InitServerSpec ==
    /\ InitWitness
    /\ config = [transition_frontier_k |-> 1, canonical_update_threshold |-> 0,
                 prune_interval |-> 1]
    /\ BranchRootBlock(root_branch).blockchain_length = None
    /\ InitServer
    /\ InitWorker
    /\ temp_blocks_dir.files = {}

NextServer ==
    \/ initialize_connecting
    \/ initialize_sigint
    \/ initialize_state
    \/ initialize_built
    \/ initialize_try_write
    \/ initialize_replace
    \/ run_start_receiver
    \/ run_start_loop
    \/ send_query
    \/ run_query_recv
    \/ run_query_try_read
    \/ run_query_respond
    \/ run_block_recv
    \/ run_save_recv
    \/ run_try_write
    \/ run_write_arm
    \/ ipc_accept
    \/ ipc_try_read
    \/ ipc_serve
    \/ ipc_reply
    \/ ipc_accept_err
    \/ sigint

\* the server's two tasks and the users of its query channel
SpecServer == InitServerSpec /\ [][NextServer]_vars

\* the worker starts beside a server that takes no step
InitWorkerSpec ==
    /\ InitWitness
    /\ config = [transition_frontier_k |-> 1, canonical_update_threshold |-> 0,
                 prune_interval |-> 1]
    /\ BranchRootBlock(root_branch).blockchain_length = None
    /\ InitServer
    /\ store = 1
    /\ InitWorker

NextWorker ==
    \/ send_shutdown
    \/ worker_try_recv
    \/ worker_spawn
    \/ gsutil_cp

\* the worker's loop, its controller and the gsutil processes it spawns
SpecWorker == InitWorkerSpec /\ [][NextWorker]_vars

\* the block of the universe with the state hash
BlockOf(rl, sh) == CHOOSE b \in Universe(rl) : b.state_hash = sh

\* a branch of one chain of blocks, the first its root
ChainBranch(rl, hashes) ==
    [nodes |-> [i \in 1..Len(hashes) |-> Node(BlockOf(rl, hashes[i]), i - 1)]]

\* the root branches a call may find: the root alone, or the root and c1
MergeRoots(rl) == {ChainBranch(rl, <<"root">>), ChainBranch(rl, <<"root", "c1">>)}

\* the dangling branches a call may find: c2 alone, c2 with its child c3, and
\* the orphans f3 and o2
DanglingPool(rl) ==
    {ChainBranch(rl, <<"c2">>), ChainBranch(rl, <<"c2", "c3">>),
     ChainBranch(rl, <<"f3">>), ChainBranch(rl, <<"o2">>)}

\* the lists of up to MaxDangling different branches of the pool
DanglingLists(rl) ==
    UNION {{d \in [1..n -> DanglingPool(rl)] :
               \A i, j \in 1..n : i # j => d[i] # d[j]} : n \in 0..MaxDangling}

\* the witness of one call of add_block: a root branch with its tips, and a
\* list of dangling branches as the Witness type holds them
InitMerge ==
    /\ InitServer
    /\ InitWorker
    /\ QuietSurroundings
    /\ \E rb \in MergeRoots(None), d \in DanglingLists(None) :
          LET cfg == [transition_frontier_k |-> 1, canonical_update_threshold |-> 0,
                      prune_interval |-> 1]
              w == [best_tip |-> BranchBestTip(rb),
                    canonical_tip |-> Tip(rb, 1),
                    root_branch |-> rb,
                    dangling_branches |-> d,
                    config |-> cfg]
          IN  /\ best_tip = w.best_tip
              /\ canonical_tip = w.canonical_tip
              /\ root_branch = w.root_branch
              /\ dangling_branches = w.dangling_branches
              /\ config = w.config
              /\ result = "NoCall"
              /\ calls = <<>>
              /\ prev = w

\* the one call
merge_call == calls = <<>> /\ add_block

NextMerge == merge_call

\* one add_block call on a witness that holds dangling branches
SpecMerge == InitMerge /\ [][NextMerge]_vars

-----------------------------------------------------------------------------
(* Properties of the witness *)

\* the block passed by the last add_block call
LastBlock ==
    CHOOSE b \in Universe(BranchRootBlock(root_branch).blockchain_length) :
        b.state_hash = calls[Len(calls)]

Called == calls # <<>>

RootLength(branch) == UnwrapOr(BranchRootBlock(branch).blockchain_length, 0)

\* the height add_block reads from an incoming block
DeclaredHeight(block) == UnwrapOr(block.blockchain_length, U32_MAX)

TreeUnchanged ==
    /\ best_tip = prev.best_tip
    /\ canonical_tip = prev.canonical_tip
    /\ root_branch = prev.root_branch
    /\ dangling_branches = prev.dangling_branches

\* the nodes of a branch that hold a block of state hash sh
NodesOf(branch, sh) == {i \in NodeIds(branch) : branch.nodes[i].block.state_hash = sh}

RECURSIVE ProperAncestors(_, _)
ProperAncestors(branch, id) ==
    LET p == branch.nodes[id].parent IN
    IF p = 0 THEN {} ELSE {p} \cup ProperAncestors(branch, p)

IsPrefix(s, t) == Len(s) <= Len(t) /\ s = SubSeq(t, 1, Len(s))

\* C1: a block whose height is at most the root's height is answered with
\* BlockNotAdded and the call leaves best_tip, canonical_tip, the root branch
\* and the dangling branches as they were.
C1_RejectBelowRoot ==
    (Called /\ DeclaredHeight(LastBlock) <= RootLength(prev.root_branch))
        => (result = "BlockNotAdded" /\ TreeUnchanged)

\* a block at the root's height was rejected by a witness that already holds
\* its parent
C1_Witness ==
    /\ Called
    /\ LastBlock.state_hash = "low"
    /\ NodesOf(root_branch, "c1") # {}
    /\ result = "BlockNotAdded"

\* C2: every add_block call returns one of the six ExtensionType values; none
\* ends in a panic or an unimplemented case.
C2_Total == Called => result \in ExtensionTypes

\* the orders in which the blocks of Chain can be passed, each once
ChainOrders ==
    {s \in [1..Len(Chain) -> {Chain[i] : i \in 1..Len(Chain)}] :
        \A i, j \in 1..Len(Chain) : i # j => s[i] # s[j]}

\* C3: in whatever order the blocks of the chain are passed, every call
\* completes and, once all are passed, best_tip is the chain's last block and
\* no dangling branch remains.
C3_AnyOrder ==
    (\E s \in ChainOrders : IsPrefix(calls, s))
        => /\ ~Panicked
           /\ Len(calls) = Len(Chain)
                => (best_tip.state_hash = Chain[Len(Chain)] /\ dangling_branches = <<>>)

\* C4: after a non-rejected add_block on the chain, once the best tip is
\* canonical_update_threshold edges deep, canonical_tip is the node reached
\* from best_tip by exactly that many parent edges.
C4_CanonicalAtThreshold ==
    LET a == AncestorAt(root_branch, best_tip.node_id, config.canonical_update_threshold)
    IN  (/\ Called
         /\ IsPrefix(calls, Chain)
         /\ result \in ExtensionTypes \ {"BlockNotAdded"}
         /\ a # 0)
            => canonical_tip = Tip(root_branch, a)

\* C5: passing a block whose state hash the tree already holds adds no second
\* node of that state hash and leaves best_tip and canonical_tip unchanged.
C5_Idempotent ==
    (Called /\ NodesOf(prev.root_branch, LastBlock.state_hash) # {})
        => /\ Cardinality(NodesOf(root_branch, LastBlock.state_hash))
                = Cardinality(NodesOf(prev.root_branch, LastBlock.state_hash))
           /\ best_tip = prev.best_tip
           /\ canonical_tip = prev.canonical_tip

\* the chain delivered as root-connected prefix, then piece B, then piece A
\* (prefix c1, A = c2, B = c3)
MergeOrders == { <<"c1", "c3", "c2">> }

\* C6: delivering prefix, then B, then A, every call completes and the call
\* that inserts A's block connecting to B returns RootComplex, leaves no
\* dangling branch and makes the chain's last block the best tip.
C6_MergeOnConnect ==
    \A s \in MergeOrders :
        IsPrefix(calls, s)
            => /\ ~Panicked
               /\ calls = s
                    => /\ result = "RootComplex"
                       /\ dangling_branches = <<>>
                       /\ best_tip.state_hash = Chain[Len(Chain)]

CanonicalHeight == NodeLength(root_branch, canonical_tip.node_id)

\* C7: the height of canonical_tip never decreases from one state to the
\* next, whichever branch best_tip moves to.
C7_CanonicalMonotone == [][CanonicalHeight' >= CanonicalHeight]_vars

\* best_tip has just jumped from c2 to the competing fork's higher tip f3,
\* which is no descendant of c2, and canonical_tip is no lower than before
C7_Witness ==
    /\ result = "RootSimple"
    /\ prev.best_tip.state_hash = "c2"
    /\ best_tip.state_hash = "f3"
    /\ prev.best_tip.node_id \notin ProperAncestors(root_branch, best_tip.node_id)
    /\ CanonicalHeight >= NodeLength(prev.root_branch, prev.canonical_tip.node_id)

\* successful additions so far: each adds one node to a branch of the witness
RECURSIVE DanglingNodes(_)
DanglingNodes(dangling) ==
    IF dangling = <<>> THEN 0
    ELSE Len(dangling[1].nodes) + DanglingNodes(Tail(dangling))

Additions == Len(root_branch.nodes) - 1 + DanglingNodes(dangling_branches)

\* C8: pruning runs with every prune_interval-th successful addition, and
\* after it the canonical tip (the node canonical_update_threshold edges up
\* from best_tip) has at most transition_frontier_k retained ancestors, and is
\* itself in the root branch.
C8_PruningBound ==
    LET a == AncestorAt(root_branch, best_tip.node_id, config.canonical_update_threshold)
    IN  (/\ result \in ExtensionTypes \ {"BlockNotAdded"}
         /\ Additions % config.prune_interval = 0
         /\ a # 0)
            => /\ Cardinality(ProperAncestors(root_branch, a)) <= config.transition_frontier_k
               /\ canonical_tip.node_id \in NodeIds(root_branch)

IsNodeOf(branch, tip) ==
    /\ tip.node_id \in NodeIds(branch)
    /\ branch.nodes[tip.node_id].block.state_hash = tip.state_hash

\* C9: best_tip is the root branch's best tip, and best_tip and canonical_tip
\* both identify nodes of the root branch.
C9_TipsInRootBranch ==
    /\ best_tip = BranchBestTip(root_branch)
    /\ IsNodeOf(root_branch, best_tip)
    /\ IsNodeOf(root_branch, canonical_tip)

\* an extension has just moved best_tip to the node it attached
C9_Witness ==
    /\ result = "RootSimple"
    /\ best_tip # prev.best_tip
    /\ best_tip.node_id = Len(root_branch.nodes)
    /\ best_tip.node_id > 1

\* the loop task holds the state for writing: installing it, adding a block
\* to it, or saving its snapshot
MutationInProgress == loop_pc \in {"installing", "block_write", "save_write"}

\* the IPC task holds the state for reading
IpcReaderHolds == ipc_pc \in {"serve", "reply"}

\* C10: while a mutation of the indexer state is in progress no reader holds
\* access to it, and no second write guard exists; a reader on the loop task
\* itself holds no write guard.
C10_SingleWriter ==
    /\ MutationInProgress => (~IpcReaderHolds /\ state_lock.readers = 0)
    /\ MutationInProgress <=> state_lock.writer
    /\ loop_pc = "query_read" => ~state_lock.writer

\* a block is being added while an accepted connection waits for the lock
C10_Witness ==
    /\ loop_pc = "block_write"
    /\ block_fut = "block"
    /\ ipc_pc = "try_read"

-----------------------------------------------------------------------------
(* Properties of the IPC protocol *)

\* the connection task has sent a SaveCommand and blocks in
\* save_resp_rx.recv() (line 313), its read guard still held
HandlerAwaitsSave == ipc_pc = "reply" /\ AwaitsSaveResponse /\ save_resp_rx = <<>>

\* C11: the connection task never waits for the SaveResponse of its
\* save_state request while the main loop, having received that SaveCommand,
\* cannot obtain the write guard it needs to save and to respond.
C11_SaveStateCompletes ==
    ~(HandlerAwaitsSave /\ loop_pc = "save_try_write" /\ ~CanWrite(state_lock))

\* C12: while a connection is being served, a block the main loop has
\* received can be applied: the loop's try_write succeeds without the
\* connection finishing first.
C12_ConnectionNeverBlocksWriter ==
    (loop_pc = "block_try_write" /\ IpcReaderHolds) => CanWrite(state_lock)

\* the connection task takes the step that ends the dispatch of its request
Dispatches(command) ==
    ipc_pc = "serve" /\ ipc_command = command /\ ipc_pc' # "serve"

\* the connection task takes the step that ends its request
Replies(command) ==
    ipc_pc = "reply" /\ ipc_command = command /\ ipc_pc' # "reply"

\* C13: serving a request with an unrecognised command writes an error
\* response to the client, sends no SaveCommand and leaves the indexer state
\* as it was.
C13_BadRequestAnswered ==
    [][Dispatches("other") =>
          /\ writer' # <<>>
          /\ UNCHANGED <<save_rx, state_installed, witness_vars, store>>]_vars

\* each block of the sequence after the first is the parent of the one before
ParentLinked(blocks) ==
    \A i \in 1..(Len(blocks) - 1) : blocks[i + 1] = blocks[i] - 1

\* C14: best_chain <n> on an installed state does not crash the task, and
\* replies with a sequence that starts at the best tip, follows the parent
\* links, and has at most n blocks and at most the blocks of the stored chain.
C14_BestChainBounded ==
    [][(Replies("best_chain") /\ state_installed) =>
          /\ ipc_pc' # "panicked"
          /\ writer' # <<>>
          /\ LET blocks == writer'[Len(writer')].blocks IN
             /\ Len(blocks) <= ipc_arg.num
             /\ Len(blocks) <= store
             /\ (blocks # <<>> => blocks[1] = store)
             /\ ParentLinked(blocks)]_vars

\* C15: account <address> on an installed state always writes a reply: the
\* account when the best ledger holds the address, a not-found text when not.
C15_AccountAlwaysAnswered ==
    [][(Replies("account") /\ state_installed) =>
          /\ writer' # <<>>
          /\ (ipc_arg.address = "in_ledger") = (writer'[Len(writer')] = Reply("account"))]_vars

\* C16: once the main loop has received a SaveCommand it obtains the write
\* guard, runs save_snapshot and sends the one SaveResponse of that command.
C16_SaveCommandAnswered ==
    (loop_pc = "save_try_write" /\ save_rx # <<>>) => ENABLED run_try_write

-----------------------------------------------------------------------------
(* Properties of the cloud block worker *)

\* the block file whose parse fails
UnparsableFile == "mainnet-3-bad.json"

\* the files a step removes from the temporary directory
Deleted == temp_blocks_dir.files \ temp_blocks_dir'.files

ShutdownPending == command_receiver # <<>>

\* C20: a worker that was sent Shutdown can still return (it has not ended
\* in another way with the command unread), and a worker that has returned
\* has left no temporary directory behind.
C20_ShutdownReturns ==
    /\ ShutdownPending => worker_pc # "panicked_unwrap"
    /\ worker_pc = "returned" => ~temp_blocks_dir.exists

-----------------------------------------------------------------------------
(* Properties of the server's shutdown, errors and connections *)

\* a connection has been accepted and its request is not finished
ConnectionInFlight == ipc_pc \in {"try_read", "serve", "reply"}

\* C21: the process exits on the interrupt signal only when no accepted
\* connection is still waiting for its request to be completed and answered.
C21_InFlightFinishesBeforeExit ==
    [][(loop_pc # "exited" /\ loop_pc' = "exited") => ~ConnectionInFlight]_vars

\* the block arm's body ends
BlockArmEnds == loop_pc = "block_write" /\ loop_pc' \notin {"block_write", "exited"}

\* C28: a block event never makes run return; after an error of the block
\* receiver the loop is back at select! with the lock free and its block,
\* query and save arms open, and when add_block returns (an error or not) for
\* a block, likewise.
C28_ErrorsKeepLoop ==
    [][BlockArmEnds =>
          /\ loop_pc' # "returned_err"
          /\ (block_fut = "error" \/ loop_pc' # "panicked") =>
                (loop_pc' = "select" /\ CanWrite(state_lock'))]_vars

\* the block receiver's error is in the arm's hands, under the write guard
C28_Witness ==
    /\ loop_pc = "block_write"
    /\ block_fut = "error"
    /\ state_lock.writer

\* C29: while an accepted connection is being served, another connection can
\* be accepted.
C29_ConnectionsIndependent == ConnectionInFlight => ENABLED ipc_accept

\* C27: once a failure of a poll cycle has been published on the error
\* channel the worker is still ingesting: no poll cycle has ended its loop.
C27_FailuresKeepIngesting ==
    error_sender # "none" => worker_pc # "panicked_unwrap"

-----------------------------------------------------------------------------
(* Properties of Witness::new and of the dangling branches *)

\* C26: before any add_block call the witness is as Witness::new made it: a
\* root branch of the one root node, no dangling branch, best_tip at the root
\* node and canonical_tip equal to best_tip, whatever the threshold.
C26_NewWitness ==
    calls = <<>> =>
        /\ Len(root_branch.nodes) = 1
        /\ BranchRootBlock(root_branch).state_hash = "root"
        /\ dangling_branches = <<>>
        /\ best_tip = Tip(root_branch, 1)
        /\ canonical_tip = best_tip

\* a new witness whose threshold is deeper than its root branch
C26_Witness ==
    /\ calls = <<>>
    /\ config.canonical_update_threshold > 0
    /\ canonical_tip.state_hash = "root"

\* the last call's block declares a height above the root's
AboveRoot == Called /\ DeclaredHeight(LastBlock) > RootLength(prev.root_branch)

\* the nodes of the dangling branches that hold the state hash
InDangling(dangling, sh) ==
    \E i \in 1..Len(dangling) : NodesOf(dangling[i], sh) # {}

\* C22: a block above the root whose parent is a node of the root branch is
\* attached as a child of that node and answered with RootSimple or
\* RootComplex, whatever height it declares relative to the best tip.
C22_RootAttachAnyHeight ==
    (AboveRoot /\ NodesOf(prev.root_branch, LastBlock.parent_hash) # {}) =>
        /\ result \in {"RootSimple", "RootComplex"}
        /\ \E id \in NodeIds(root_branch) \ NodeIds(prev.root_branch) :
              /\ root_branch.nodes[id].block = LastBlock
              /\ root_branch.nodes[id].parent \in
                     NodesOf(prev.root_branch, LastBlock.parent_hash)

\* C25: a block above the root whose parent is in no branch and which is the
\* parent of no dangling root is answered with DanglingNew and becomes one new
\* dangling branch of that block alone; root branch and best_tip stay.
C25_DanglingNew ==
    (/\ AboveRoot
     /\ NodesOf(prev.root_branch, LastBlock.parent_hash) = {}
     /\ ~InDangling(prev.dangling_branches, LastBlock.parent_hash)
     /\ \A i \in 1..Len(prev.dangling_branches) :
           BranchRootBlock(prev.dangling_branches[i]).parent_hash # LastBlock.state_hash) =>
        /\ result = "DanglingNew"
        /\ dangling_branches = Append(prev.dangling_branches, BranchNew(LastBlock))
        /\ root_branch = prev.root_branch
        /\ best_tip = prev.best_tip

\* the last call extended the root branch
RootExtended == Called /\ result \in {"RootSimple", "RootComplex"}

\* the branches of the list that are no longer dangling
NoLongerDangling ==
    {prev.dangling_branches[i] : i \in 1..Len(prev.dangling_branches)} \
    {dangling_branches[i] : i \in 1..Len(dangling_branches)}

Spliced == Len(root_branch.nodes) - Len(prev.root_branch.nodes) - 1

\* C24: a call that extended the root branch answers RootComplex exactly when
\* it merged a dangling branch (the dangling list got shorter and the root
\* branch took its nodes), and RootSimple exactly when it merged none.
C24_ComplexIffMerged ==
    RootExtended =>
        /\ (result = "RootComplex") <=>
               (Len(dangling_branches) < Len(prev.dangling_branches))
        /\ (result = "RootComplex") <=> (Spliced > 0)
        /\ (result = "RootSimple") <=> (dangling_branches = prev.dangling_branches)

\* a call merged the dangling c2 branches under the c2 it attached
C24_Witness ==
    /\ result = "RootComplex"
    /\ calls = <<"c2">>
    /\ Len(dangling_branches) < Len(prev.dangling_branches)

\* try_merge_dangling merges the branch under the new node (line 122)
MergedByCall(branch) == BranchRootBlock(branch).state_hash = LastBlock.state_hash

RECURSIVE NotMerged(_)
\* the branches of the list that the call did not merge, in their order
NotMerged(dangling) ==
    IF dangling = <<>> THEN <<>>
    ELSE IF MergedByCall(Head(dangling)) THEN NotMerged(Tail(dangling))
    ELSE <<Head(dangling)>> \o NotMerged(Tail(dangling))

\* C30: try_merge_dangling leaves in the dangling list exactly the branches
\* it did not merge, in their relative order, wherever the merged ones stood.
C30_RemovesExactlyMerged ==
    RootExtended => dangling_branches = NotMerged(prev.dangling_branches)

\* the first and the third of three dangling branches were merged, the second
\* is what is left
C30_Witness ==
    /\ result = "RootComplex"
    /\ Len(prev.dangling_branches) = 3
    /\ MergedByCall(prev.dangling_branches[1])
    /\ MergedByCall(prev.dangling_branches[3])
    /\ dangling_branches = <<prev.dangling_branches[2]>>

-----------------------------------------------------------------------------
(* Properties of the run phase *)

\* C31: whenever initialized() answers true the indexer state is installed in
\* the lock, so that a request served then is answered from the state.
C31_InitializedMeansInstalled == initialized => state_installed

====
